---- MODULE Spec2Model ----
(***************************************************************************)
(* Model of dpamvifgenerator/script.py: the settings index                 *)
(* (get_port_settings_from_vif), the comparisons (elements_equal,          *)
(* contains_contents) and the merge loop (generate_dpam_vif).              *)
(*                                                                         *)
(* XML elements are objects with identity, so the two parsed trees live in *)
(* one heap: a function from node identifiers to element records           *)
(* [tag, text, tail, attrib, kids], kids being the ordered children.       *)
(* A text is a sequence of characters; the characters that matter are the  *)
(* newline, the blank, and runs of non-blank characters kept as one item.  *)
(***************************************************************************)
EXTENDS Integers, Sequences, FiniteSets, TLC

VARIABLES heap, index, ports, i, pc, run, heap0, ncomments

vars == <<heap, index, ports, i, pc, run, heap0, ncomments>>

\* Number of times generate_dpam_vif is run on the same pair of trees.
MaxRuns == 2

-----------------------------------------------------------------------------
(* Values *)

\* Python's None where an element is expected (find() that finds nothing).
Null == "null"

\* Python's None as the text or tail of an element.
None == <<"<None>">>

\* The choice "this Component has no Port_Label child".
NoLabel == <<"<no Port_Label>">>

NL == <<"\n">>
Indent1 == <<"\n", " ">>
Indent2 == <<"\n", " ", " ">>

VifTag == <<"vif", "VIF">>
ComponentTag == <<"vif", "Component">>
PortLabelTag == <<"vif", "Port_Label">>
PortTypeTag == <<"vif", "Port_Type">>
WrapTag == <<"vif", "Wrap">>
OptionalContentTag == <<"opt", "OptionalContent">>
WiredTag == <<"opt", "Wired">>
OtherTag == <<"opt", "Other">>
CommentTag == <<"", "#comment">>

\* The key of the settings of a Component without Port_Label.
NAKey == <<"NA">>

CommentText == <<"Non-USB Content">>

Elem(tag, text, tail, attrib, kids) ==
  [tag |-> tag, text |-> text, tail |-> tail, attrib |-> attrib, kids |-> kids]

\* ET.Comment("Non-USB Content"): a new element whose tag is the Comment marker.
Comment(text) == Elem(CommentTag, text, None, {}, <<>>)

\* The identifier of the n-th comment element created by the merge.
CommentId(n) == "cmt" \o ToString(n)

-----------------------------------------------------------------------------
(* Tree queries of xml.etree.ElementTree *)

RECURSIVE Descendants(_, _)
\* The nodes below the nodes of s, in document order (s included).
Descendants(h, s) ==
  IF s = <<>> THEN <<>>
  ELSE <<Head(s)>> \o Descendants(h, h[Head(s)].kids) \o Descendants(h, Tail(s))

WithTag(h, s, tag) == SelectSeq(s, LAMBDA n : h[n].tag = tag)

FirstOrNull(s) == IF s = <<>> THEN Null ELSE Head(s)

\* e.find("prefix:Tag"): the first direct child with the tag, or None.
find(h, e, tag) == FirstOrNull(WithTag(h, h[e].kids, tag))

\* e.find(".//prefix:Tag"): the first descendant with the tag, or None.
findDeep(h, e, tag) == FirstOrNull(WithTag(h, Descendants(h, h[e].kids), tag))

\* e.findall(".//prefix:Tag"): every descendant with the tag, document order.
findall(h, e, tag) == WithTag(h, Descendants(h, h[e].kids), tag)

\* The truth value of an Element is len(e) != 0: an element without
\* children is false (Python up to 3.13 at least, with a warning from 3.12).
Truthy(h, e) == e # Null /\ Len(h[e].kids) > 0

RECURSIVE RemoveFirst(_, _)
\* list.remove: the sequence without the first occurrence of x.
RemoveFirst(s, x) ==
  IF s = <<>> THEN <<>>
  ELSE IF Head(s) = x THEN Tail(s)
  ELSE <<Head(s)>> \o RemoveFirst(Tail(s), x)

\* port.remove(x)
remove(h, port, x) ==
  [h EXCEPT ![port].kids = RemoveFirst(h[port].kids, x)]

\* Mutant of append: the element is put first, as port.insert(0, x) does.
append_first(h, port, x) ==
  [h EXCEPT ![port].kids = <<x>> \o h[port].kids]

\* port.append(x)
append(h, port, x) ==
  [h EXCEPT ![port].kids = Append(h[port].kids, x)]

Range(s) == {s[k] : k \in DOMAIN s}

-----------------------------------------------------------------------------
(* ET.tostring(e, encoding='unicode', method='xml'), then splitlines() and  *)
(* strip() of every line.  The serialized text is a sequence of items: one *)
(* item for a start tag, an end tag, an empty-element tag or a comment,    *)
(* and one item per character of a text or tail.                           *)

Item(k, tag, a, ns, txt) == [k |-> k, tag |-> tag, a |-> a, ns |-> ns, txt |-> txt]

\* The characters of a text or tail as items; None and "" write nothing.
Chars(t) ==
  IF t = None THEN <<>>
  ELSE [k \in 1..Len(t) |-> Item("chr", <<>>, {}, {}, <<t[k]>>)]

\* The namespace prefixes the subtree of e uses: tostring declares them on
\* the element it is called with.
Namespaces(h, e) ==
  {h[n].tag[1] : n \in {m \in Range(Descendants(h, <<e>>)) : h[m].tag # CommentTag}}

RECURSIVE Serialize(_, _, _)
\* The serialization of the elements of s one after the other, each with its
\* tail; ns is what the first start tag declares.
Serialize(h, s, ns) ==
  IF s = <<>> THEN <<>>
  ELSE LET e == h[Head(s)]
           this ==
             IF e.tag = CommentTag
               THEN <<Item("comment", e.tag, {}, {}, e.text)>>
             ELSE IF Chars(e.text) # <<>> \/ Len(e.kids) > 0
               THEN <<Item("start", e.tag, e.attrib, ns, <<>>)>>
                    \o Chars(e.text)
                    \o Serialize(h, e.kids, {})
                    \o <<Item("end", e.tag, {}, {}, <<>>)>>
             ELSE <<Item("empty", e.tag, e.attrib, ns, <<>>)>>
       IN this \o Chars(e.tail) \o Serialize(h, Tail(s), {})

tostring(h, e) == Serialize(h, <<e>>, Namespaces(h, e))

IsChar(x, c) == x.k = "chr" /\ x.txt = <<c>>

RECURSIVE SplitLines(_, _)
\* str.splitlines(): cur is the line being read; a text that ends with a
\* line break has no empty last line.
SplitLines(s, cur) ==
  IF s = <<>> THEN (IF cur = <<>> THEN <<>> ELSE <<cur>>)
  ELSE IF IsChar(Head(s), "\n") THEN <<cur>> \o SplitLines(Tail(s), <<>>)
  ELSE SplitLines(Tail(s), Append(cur, Head(s)))

RECURSIVE LStrip(_)
LStrip(l) == IF l # <<>> /\ IsChar(Head(l), " ") THEN LStrip(Tail(l)) ELSE l

RECURSIVE RStrip(_)
RStrip(l) ==
  IF l # <<>> /\ IsChar(l[Len(l)], " ") THEN RStrip(SubSeq(l, 1, Len(l) - 1)) ELSE l

\* str.strip() of a line
Strip(l) == RStrip(LStrip(l))

\* [line.strip() for line in xml_string.splitlines()]
StrippedLines(h, e) ==
  LET lines == SplitLines(tostring(h, e), <<>>)
  IN [k \in 1..Len(lines) |-> Strip(lines[k])]

-----------------------------------------------------------------------------
(* The comparisons *)

RECURSIVE elements_equal_no_attrib(_, _, _)
\* Mutant of elements_equal: the attributes are not compared.
elements_equal_no_attrib(h, e1, e2) ==
  IF h[e1].tag # h[e2].tag THEN FALSE
  ELSE IF h[e1].text # h[e2].text THEN FALSE
  ELSE IF h[e1].tail # h[e2].tail THEN FALSE
  ELSE IF Len(h[e1].kids) # Len(h[e2].kids) THEN FALSE
  ELSE \A k \in 1..Len(h[e1].kids) :
         elements_equal_no_attrib(h, h[e1].kids[k], h[e2].kids[k])

RECURSIVE elements_equal(_, _, _)
elements_equal(h, e1, e2) ==
  IF h[e1].tag # h[e2].tag THEN FALSE
  ELSE IF h[e1].text # h[e2].text THEN FALSE
  ELSE IF h[e1].tail # h[e2].tail THEN FALSE
  ELSE IF h[e1].attrib # h[e2].attrib THEN FALSE
  ELSE IF Len(h[e1].kids) # Len(h[e2].kids) THEN FALSE
  ELSE \A k \in 1..Len(h[e1].kids) :
         elements_equal(h, h[e1].kids[k], h[e2].kids[k])

RECURSIVE contains_contents(_, _, _)
RECURSIVE ContainsLoop(_, _, _)

\* The loop "for child in obj1" of contains_contents over the children s
\* that are left: the first OptionalContent child ends it either way.
ContainsLoop(h, s, obj2) ==
  IF s = <<>> THEN FALSE
  ELSE IF h[Head(s)].tag = OptionalContentTag
    THEN IF contains_contents(h, Head(s), obj2) THEN TRUE
         ELSE StrippedLines(h, Head(s)) = StrippedLines(h, obj2)
  ELSE ContainsLoop(h, Tail(s), obj2)

contains_contents(h, obj1, obj2) ==
  IF h[obj1].tag # h[obj2].tag THEN FALSE
  ELSE IF obj2 \in Range(h[obj1].kids) THEN TRUE
  ELSE ContainsLoop(h, h[obj1].kids, obj2)

-----------------------------------------------------------------------------
(* The settings index *)

NoSettings == [k \in {} |-> Null]

\* port_settings[key] = value
Put(idx, key, value) ==
  [k \in DOMAIN idx \cup {key} |-> IF k = key THEN value ELSE idx[k]]

\* The key of a Component: the text of its Port_Label child, or "NA".
PortKey(h, port) ==
  LET port_data == find(h, port, PortLabelTag)
  IN IF port_data # Null THEN h[port_data].text ELSE NAKey

RECURSIVE IndexLoop(_, _, _)
\* The loop of get_port_settings_from_vif over the Components s left.
IndexLoop(h, s, port_settings) ==
  IF s = <<>> THEN port_settings
  ELSE IndexLoop(h, Tail(s),
         Put(port_settings, PortKey(h, Head(s)),
             findDeep(h, Head(s), OptionalContentTag)))

get_port_settings_from_vif(h, root) ==
  IndexLoop(h, findall(h, root, ComponentTag), NoSettings)

-----------------------------------------------------------------------------
(* One iteration of the loop of generate_dpam_vif.  The result is the heap *)
(* after it, the number of comments created so far, and whether the        *)
(* iteration ended without an exception.                                   *)

Outcome(h, n, ok) == [h |-> h, n |-> n, ok |-> ok]

\* port_settings[key] used where an element is needed: a missing key raises
\* KeyError, a None value raises in append() or at the first ".tag".
Usable(port_settings, key) ==
  key \in DOMAIN port_settings /\ port_settings[key] # Null

\* Mutant of AppendWithComment: the comment is not appended.
AppendWithoutComment(h, port_settings, port, key, n) ==
  IF Usable(port_settings, key)
    THEN Outcome(append(h, port, port_settings[key]), n, TRUE)
    ELSE Outcome(h, n, FALSE)

\* Mutant of AppendWithComment: a port whose key has no element in the
\* index is passed over (port_settings.get(key), and nothing done on None).
AppendOrSkip(h, port_settings, port, key, n) ==
  LET cid == CommentId(n + 1)
      hc == append((cid :> Comment(CommentText)) @@ h, port, cid)
  IN IF Usable(port_settings, key)
       THEN Outcome(append(hc, port, port_settings[key]), n + 1, TRUE)
       ELSE Outcome(h, n, TRUE)

\* port.append(ET.Comment("Non-USB Content")) followed by
\* port.append(port_settings[key]); the comment is appended before the
\* lookup is evaluated.
AppendWithComment(h, port_settings, port, key, n) ==
  LET cid == CommentId(n + 1)
      hc == append((cid :> Comment(CommentText)) @@ h, port, cid)
  IN IF Usable(port_settings, key)
       THEN Outcome(append(hc, port, port_settings[key]), n + 1, TRUE)
       ELSE Outcome(hc, n + 1, FALSE)

\* Mutant of Replace: the existing content is not removed.
ReplaceKeepingOld(h, port_settings, port, key, optional_content) ==
  append(h, port, port_settings[key])

\* port.remove(optional_content); port.append(port_settings[key])
Replace(h, port_settings, port, key, optional_content) ==
  append(remove(h, port, optional_content), port, port_settings[key])

MergePortStep(h, port_settings, port, n) ==
  LET port_name == find(h, port, PortLabelTag)
      optional_content == find(h, port, OptionalContentTag)
      key == PortKey(h, port)
  IN IF Truthy(h, optional_content) /\ port_name # Null
       THEN IF ~Usable(port_settings, key) THEN Outcome(h, n, FALSE)
            ELSE IF ~contains_contents(h, optional_content, port_settings[key])
              THEN Outcome(Replace(h, port_settings, port, key, optional_content),
                           n, TRUE)
            ELSE Outcome(h, n, TRUE)
     ELSE IF port_name # Null
       THEN AppendWithComment(h, port_settings, port, key, n)
     ELSE IF optional_content = Null
       THEN AppendWithComment(h, port_settings, port, NAKey, n)
     ELSE IF ~Usable(port_settings, NAKey) THEN Outcome(h, n, FALSE)
     ELSE IF ~elements_equal(h, optional_content, port_settings[NAKey])
       THEN Outcome(Replace(h, port_settings, port, NAKey, optional_content),
                    n, TRUE)
     ELSE Outcome(h, n, TRUE)

-----------------------------------------------------------------------------
(* The input documents: a settings document of two Components and a VIF   *)
(* document of two ports, each port with at most one Port_Label and at     *)
(* most one OptionalContent child.                                         *)

\* What a Component has for a label: no Port_Label, <Port_Label>PORT_A..,
\* <Port_Label>NA.. or an empty <Port_Label/>, whose text is None.
Labels == {NoLabel, <<"PORT_A">>, NAKey, None}

\* The labels of the first settings Component and of the second VIF port.
FewLabels == {NoLabel, <<"PORT_A">>}

ContentPlaces == {"none", "direct", "deep"}

ExistingShapes ==
  {"none", "empty", "copyA", "attrA", "wsA", "childA", "skipA", "child2A",
   "wrapA", "wrap2A", "wrapId", "childId", "swapA"}

\* The shapes ET.parse can build: in the other two the VIF tree holds an
\* element of the settings tree, which only a caller of generate_dpam_vif
\* that builds the trees itself can arrange.
ParsedShapes == ExistingShapes \ {"wrapId", "childId"}

\* <vif:Port_Label>l</vif:Port_Label>, when the Component has one.
LabelNodes(id, l) ==
  IF l = NoLabel THEN <<>> ELSE id :> Elem(PortLabelTag, l, NL, {}, <<>>)

LabelKids(id, l) == IF l = NoLabel THEN <<>> ELSE <<id>>

\* <opt:OptionalContent><opt:Wired a="v"/></opt:OptionalContent>
WiredContent(id, text, v) ==
  (id :> Elem(OptionalContentTag, text, NL, {}, <<id \o "w">>))
  @@ ((id \o "w") :> Elem(WiredTag, None, NL, {<<"a", v>>}, <<>>))

\* <opt:OptionalContent/>
EmptyContent(id) == id :> Elem(OptionalContentTag, None, NL, {}, <<>>)

\* An OptionalContent element with the given children.
Holder(id, kids) == id :> Elem(OptionalContentTag, Indent1, NL, {}, kids)

\* Where a settings Component holds its OptionalContent: not at all, as a
\* child, or below a child.
ContentKids(place, id) ==
  CASE place = "none" -> <<>>
    [] place = "direct" -> <<id>>
    [] place = "deep" -> <<id \o "wrap">>

ContentNodes(place, id) ==
  IF place = "deep" THEN (id \o "wrap") :> Elem(WrapTag, Indent1, NL, {}, <<id>>)
  ELSE <<>>

\* The settings document: two Components, the second a sibling of the first
\* or, when nested, its child ahead of the first one's own content.
SettingsDoc(l1, l2, c1, c2, nested) ==
  ("sroot" :> Elem(VifTag, Indent1, None, {},
                   IF nested THEN <<"sc1">> ELSE <<"sc1", "sc2">>))
  @@ ("sc1" :> Elem(ComponentTag, Indent1, NL, {},
                    LabelKids("sl1", l1)
                    \o (IF nested THEN <<"sc2">> ELSE <<>>)
                    \o ContentKids(c1, "SA")))
  @@ ("sc2" :> Elem(ComponentTag, Indent1, NL, {},
                    LabelKids("sl2", l2) \o ContentKids(c2, "SB")))
  @@ LabelNodes("sl1", l1) @@ LabelNodes("sl2", l2)
  @@ ContentNodes(c1, "SA") @@ ContentNodes(c2, "SB")
  @@ WiredContent("SA", Indent1, "1") @@ EmptyContent("SB")

\* The OptionalContent a VIF port holds before the merge.
ExistingKids(shape, id) == IF shape = "none" THEN <<>> ELSE <<id>>

ExistingNodes(shape, id) ==
  CASE shape = "none" -> <<>>
    [] shape = "empty" -> EmptyContent(id)
    [] shape = "copyA" -> WiredContent(id, Indent1, "1")
    [] shape = "attrA" -> WiredContent(id, Indent1, "2")
    [] shape = "wsA" -> WiredContent(id, Indent2, "1")
    [] shape = "childA" ->
         Holder(id, <<id \o "c">>) @@ WiredContent(id \o "c", Indent2, "1")
    [] shape = "skipA" ->
         Holder(id, <<id \o "x", id \o "c">>)
         @@ ((id \o "x") :> Elem(OtherTag, None, NL, {}, <<>>))
         @@ WiredContent(id \o "c", Indent1, "1")
    [] shape = "child2A" ->
         Holder(id, <<id \o "o", id \o "c">>)
         @@ EmptyContent(id \o "o") @@ WiredContent(id \o "c", Indent1, "1")
    [] shape = "wrapA" ->
         Holder(id, <<id \o "p">>) @@ Holder(id \o "p", <<id \o "c">>)
         @@ WiredContent(id \o "c", Indent1, "1")
    [] shape = "wrap2A" ->
         Holder(id, <<id \o "o", id \o "p">>) @@ EmptyContent(id \o "o")
         @@ Holder(id \o "p", <<id \o "c">>)
         @@ WiredContent(id \o "c", Indent1, "1")
    [] shape = "wrapId" ->
         Holder(id, <<id \o "p">>) @@ Holder(id \o "p", <<"SA">>)
    [] shape = "childId" -> Holder(id, <<"SA">>)
    [] shape = "swapA" ->
         Holder(id, <<id \o "p", id \o "q">>)
         @@ Holder(id \o "p", <<id \o "x", id \o "c">>)
         @@ Holder(id \o "q", <<id \o "d", id \o "y">>)
         @@ ((id \o "x") :> Elem(OtherTag, None, NL, {}, <<>>))
         @@ ((id \o "y") :> Elem(OtherTag, None, NL, {}, <<>>))
         @@ WiredContent(id \o "c", Indent1, "1")
         @@ WiredContent(id \o "d", Indent1, "1")

\* The VIF document: port P1 below the root, port P2 one level deeper.
VifDoc(l1, x1, l2) ==
  ("vroot" :> Elem(VifTag, Indent1, None, {}, <<"P1", "vwrap">>))
  @@ ("vwrap" :> Elem(WrapTag, Indent1, NL, {}, <<"P2">>))
  @@ ("P1" :> Elem(ComponentTag, Indent1, NL, {},
                   LabelKids("vl1", l1) \o ExistingKids(x1, "E1") \o <<"vt1">>))
  @@ ("P2" :> Elem(ComponentTag, Indent1, NL, {},
                   LabelKids("vl2", l2) \o <<"vn2">>))
  @@ ("vt1" :> Elem(PortTypeTag, <<"x">>, NL, {}, <<>>))
  @@ ("vn2" :> Comment(<<"note">>))
  @@ LabelNodes("vl1", l1) @@ LabelNodes("vl2", l2)
  @@ ExistingNodes(x1, "E1")

-----------------------------------------------------------------------------
(* The program *)

\* The state before generate_dpam_vif is called on the trees in h.
Start(h) ==
  /\ heap = h
  /\ heap0 = h
  /\ index = NoSettings
  /\ ports = <<>>
  /\ i = 0
  /\ pc = "start"
  /\ run = 0
  /\ ncomments = 0

\* generate_vif has parsed the two files.
Init ==
  \E l1 \in FewLabels, l2 \in Labels, c1 \in ContentPlaces \ {"deep"},
     c2 \in ContentPlaces, nested \in BOOLEAN,
     v1 \in Labels, x1 \in ParsedShapes, v2 \in FewLabels :
    Start(VifDoc(v1, x1, v2) @@ SettingsDoc(l1, l2, c1, c2, nested))

\* The trees the comparisons are checked on: every shape of existing
\* content, the two with shared elements included, against one settings
\* document.
InitCompare ==
  \E v1 \in Labels, x1 \in ExistingShapes, v2 \in FewLabels :
    Start(VifDoc(v1, x1, v2)
          @@ SettingsDoc(NoLabel, <<"PORT_A">>, "direct", "direct", FALSE))

\* generate_dpam_vif up to its loop: the index is built from the settings
\* document and findall lists the ports.  It is called on freshly parsed
\* trees, or again on the trees a completed run has left.
StartMerge ==
  /\ pc \in {"start", "done"}
  /\ run < MaxRuns
  /\ index' = get_port_settings_from_vif(heap, "sroot")
  /\ ports' = findall(heap, "vroot", ComponentTag)
  /\ i' = 1
  /\ pc' = "merging"
  /\ run' = run + 1
  /\ heap0' = heap
  /\ UNCHANGED <<heap, ncomments>>

\* One iteration of the loop; an exception ends generate_dpam_vif.
MergePort ==
  /\ pc = "merging"
  /\ i <= Len(ports)
  /\ LET out == MergePortStep(heap, index, ports[i], ncomments)
     IN /\ heap' = out.h
        /\ ncomments' = out.n
        /\ IF out.ok THEN i' = i + 1 /\ pc' = pc
                     ELSE i' = i /\ pc' = "failed"
  /\ UNCHANGED <<index, ports, run, heap0>>

\* The loop has run over every port: generate_dpam_vif returns.
Return ==
  /\ pc = "merging"
  /\ i > Len(ports)
  /\ pc' = "done"
  /\ UNCHANGED <<heap, index, ports, i, run, heap0, ncomments>>

Next == StartMerge \/ MergePort \/ Return

Spec == Init /\ [][Next]_vars

SpecCompare == InitCompare /\ [][Next]_vars

TypeOK ==
  /\ pc \in {"start", "merging", "done", "failed"}
  /\ run \in 0..MaxRuns
  /\ i \in 0..(Len(ports) + 1)

-----------------------------------------------------------------------------
(* Vocabulary of the properties.  heap0 is the heap generate_dpam_vif was  *)
(* called with; the ports at positions below i have been merged by the     *)
(* current call without an exception.                                      *)

Merged == IF pc = "start" THEN {} ELSE 1..(i - 1)

\* The direct-child OptionalContent of a port before the merge, or Null.
Existing(p) == find(heap0, p, OptionalContentTag)

HasLabel(p) == find(heap0, p, PortLabelTag) # Null

Key(p) == PortKey(heap0, p)

IsNewComment(c) ==
  c \in DOMAIN heap /\ c \notin DOMAIN heap0 /\ heap[c] = Comment(CommentText)

RECURSIVE Canon(_, _)
\* An element as a value: its tag, text, tail, attributes and the values of
\* its children in order.
Canon(h, e) ==
  [tag |-> h[e].tag, text |-> h[e].text, tail |-> h[e].tail,
   attrib |-> h[e].attrib,
   kids |-> [k \in 1..Len(h[e].kids) |-> Canon(h, h[e].kids[k])]]

StructurallyEqual(h, a, b) == Canon(h, a) = Canon(h, b)

-----------------------------------------------------------------------------
(* C1: a port without a direct-child OptionalContent whose key has an      *)
(* element in the index keeps its children in their order and gains, as    *)
(* its last two children, a new "Non-USB Content" comment and then the     *)
(* element index[key].                                                     *)
C1_InsertWithComment ==
  \A k \in Merged :
    LET p == ports[k]
    IN (Existing(p) = Null /\ Key(p) \in DOMAIN index /\ index[Key(p)] # Null)
       => \E c \in DOMAIN heap :
            /\ IsNewComment(c)
            /\ heap[p].kids = heap0[p].kids \o <<c, index[Key(p)]>>

\* Both ports had no OptionalContent, one with a label and one without,
\* and both have been merged.
C1_Witness ==
  /\ pc = "done"
  /\ \E k \in Merged :
       HasLabel(ports[k]) /\ Key(ports[k]) # NAKey /\ Existing(ports[k]) = Null
  /\ \E k \in Merged : ~HasLabel(ports[k]) /\ Existing(ports[k]) = Null

(* C2: a port with a Port_Label and a direct-child OptionalContent, with   *)
(* any number of children: when the existing content does not contain      *)
(* index[label] it is removed and index[label] becomes the last child,     *)
(* otherwise the port is left as it was; no comment is added and the old   *)
(* content never stays next to the new one.                                *)
C2_LabelledReplaceOrKeep ==
  \A k \in Merged :
    LET p == ports[k]
    IN (HasLabel(p) /\ Existing(p) # Null)
       => heap[p].kids =
            IF contains_contents(heap0, Existing(p), index[Key(p)])
              THEN heap0[p].kids
              ELSE RemoveFirst(heap0[p].kids, Existing(p)) \o <<index[Key(p)]>>

(* C3: a second merge of the merged tree with the same settings changes    *)
(* nothing: every element has the children it had after the first merge    *)
(* and no element has been created.                                        *)
C3_Idempotent ==
  (run = 2 /\ pc \in {"done", "failed"}) => heap = heap0

(* C4: a port without Port_Label that has a direct-child OptionalContent,  *)
(* merged against an element index["NA"]: when the two are structurally    *)
(* equal the children of the port are as before, otherwise the existing    *)
(* content is removed and index["NA"] is the last child; no comment is     *)
(* added.                                                                  *)
C4_UnlabelledReplaceOrKeep ==
  \A k \in Merged :
    LET p == ports[k]
    IN (~HasLabel(p) /\ Existing(p) # Null)
       => /\ NAKey \in DOMAIN index /\ index[NAKey] # Null
          /\ heap[p].kids =
               IF StructurallyEqual(heap0, Existing(p), index[NAKey])
                 THEN heap0[p].kids
                 ELSE RemoveFirst(heap0[p].kids, Existing(p)) \o <<index[NAKey]>>

\* An unlabelled port whose content differed from index["NA"] has been
\* merged: the content went and index["NA"] came last.
C4_Witness ==
  \E k \in Merged :
    /\ ~HasLabel(ports[k]) /\ Existing(ports[k]) # Null
    /\ ~StructurallyEqual(heap0, Existing(ports[k]), index[NAKey])
    /\ Len(heap0[Existing(ports[k])].kids) > 0
    /\ Existing(ports[k]) \notin Range(heap[ports[k]].kids)


(* C5: the index has one entry per key of a settings Component; its value  *)
(* is the first OptionalContent below the last Component with that key, or *)
(* None when there is none; a Component with a Port_Label leaves the "NA"  *)
(* entry to the Components without one.                                    *)
C5_LastWriteWins ==
  pc # "start" =>
    LET comps == WithTag(heap0, Descendants(heap0, heap0["sroot"].kids),
                         ComponentTag)
        Last(key) ==
          comps[CHOOSE j \in DOMAIN comps :
                  /\ PortKey(heap0, comps[j]) = key
                  /\ \A m \in DOMAIN comps :
                       PortKey(heap0, comps[m]) = key => m <= j]
        unlabelled ==
          SelectSeq(comps, LAMBDA c : find(heap0, c, PortLabelTag) = Null)
    IN /\ DOMAIN index = {PortKey(heap0, comps[j]) : j \in DOMAIN comps}
       /\ \A key \in DOMAIN index :
            index[key] = findDeep(heap0, Last(key), OptionalContentTag)
       /\ IF unlabelled = <<>> THEN NAKey \notin DOMAIN index
          ELSE index[NAKey] = findDeep(heap0, unlabelled[Len(unlabelled)],
                                       OptionalContentTag)

\* No merged port has a key missing from the index, and after a failure
\* the ports after the failing one are as they were in the input.
C6_NoSkip ==
  /\ \A k \in Merged : Key(ports[k]) \in DOMAIN index
  /\ pc = "failed" =>
       \A k \in (i + 1)..Len(ports) : heap[ports[k]] = heap0[ports[k]]

\* The step that reaches a port whose key is missing ends the merge in
\* failure at that port and changes no other port.
C6_FailingStep ==
  (pc = "merging" /\ i <= Len(ports)
     /\ PortKey(heap, ports[i]) \notin DOMAIN index)
  => /\ pc' = "failed"
     /\ i' = i
     /\ \A k \in DOMAIN ports : k # i => heap'[ports[k]] = heap[ports[k]]

(* C6: the merge stops at the first port whose key is not in the index:    *)
(* no port with a missing key is passed over, the step that reaches one    *)
(* ends the merge in failure and changes no other port (the ports merged   *)
(* before keep what was done to them), and after the failure every later   *)
(* port is as it was in the input.                                         *)
C6_FailFast == []C6_NoSkip /\ [][C6_FailingStep]_vars

\* The merge has failed on a lookup miss at the first port and a later port
\* is as it was.
C6_Witness ==
  /\ pc = "failed" /\ i = 1 /\ Len(ports) > 1
  /\ Key(ports[1]) \notin DOMAIN index
  /\ heap[ports[2]] = heap0[ports[2]]

\* The merge has failed on a lookup miss at the second port and the first
\* port keeps what the merge did to it.
C6_WitnessNoRollback ==
  /\ pc = "failed" /\ i = 2
  /\ Key(ports[2]) \notin DOMAIN index
  /\ heap[ports[1]] # heap0[ports[1]]

(* C7: after a successful merge every element that is not a port is as it  *)
(* was; a port keeps its tag, text, tail and attributes, and its children  *)
(* begin with the children it had, in their order, with or without the     *)
(* OptionalContent found before the merge; what follows them was added by  *)
(* the merge: new comments and elements of the index.                      *)
C7_Frame ==
  pc = "done" =>
    /\ \A n \in DOMAIN heap0 :
         n \notin Range(ports) => n \in DOMAIN heap /\ heap[n] = heap0[n]
    /\ \A p \in Range(ports) :
         /\ [heap[p] EXCEPT !.kids = <<>>] = [heap0[p] EXCEPT !.kids = <<>>]
         /\ \E m \in 0..Len(heap[p].kids) :
              /\ SubSeq(heap[p].kids, 1, m)
                   \in {heap0[p].kids, RemoveFirst(heap0[p].kids, Existing(p))}
              /\ \A j \in (m + 1)..Len(heap[p].kids) :
                   \/ IsNewComment(heap[p].kids[j])
                   \/ heap[p].kids[j] \in {index[key] : key \in DOMAIN index}

\* A merge has ended that replaced the content of one port and added a
\* comment and content to the other.
C7_Witness ==
  /\ pc = "done" /\ run = 1
  /\ \E p \in Range(ports) :
       /\ Existing(p) # Null /\ Existing(p) \notin Range(heap[p].kids)
       /\ Len(heap[p].kids) = Len(heap0[p].kids)
  /\ \E p \in Range(ports) : Len(heap[p].kids) = Len(heap0[p].kids) + 2

(* C8: when the existing content of a labelled port holds the settings     *)
(* content of its label as a grandchild below an OptionalContent child,    *)
(* the same element or a copy with the same serialized text, the existing  *)
(* content contains the settings content and the merge leaves the port as  *)
(* it was.                                                                 *)
C8_NestedContained ==
  \A k \in DOMAIN ports :
    LET p == ports[k]
        e == Existing(p)
        t == index[Key(p)]
    IN (/\ pc # "start" /\ HasLabel(p) /\ e # Null
        /\ Key(p) \in DOMAIN index /\ t # Null
        /\ \E w \in Range(heap0[e].kids) :
             /\ heap0[w].tag = OptionalContentTag
             /\ \E g \in Range(heap0[w].kids) :
                  \/ g = t
                  \/ /\ heap0[g].tag = OptionalContentTag
                     /\ tostring(heap0, g) = tostring(heap0, t))
       => /\ contains_contents(heap0, e, t)
          /\ k \in Merged => heap[p].kids = heap0[p].kids

(* C9: elements_equal is structural equality: it holds of two elements     *)
(* exactly when their tags, texts, tails, attributes and children, taken   *)
(* in order and comments included, are equal; it is reflexive and          *)
(* symmetric, and two elements that differ in one attribute value or in    *)
(* the order of two unequal children are not equal.                        *)
C9_StructuralEquality ==
  \A a \in DOMAIN heap, b \in DOMAIN heap :
    /\ elements_equal(heap, a, b) <=> StructurallyEqual(heap, a, b)
    /\ elements_equal(heap, a, a)
    /\ elements_equal(heap, a, b) <=> elements_equal(heap, b, a)
    /\ (/\ heap[a].attrib # heap[b].attrib
        /\ [Canon(heap, a) EXCEPT !.attrib = {}]
             = [Canon(heap, b) EXCEPT !.attrib = {}])
       => ~elements_equal(heap, a, b)
    /\ (/\ Len(heap[a].kids) = 2
        /\ ~StructurallyEqual(heap, heap[a].kids[1], heap[a].kids[2])
        /\ [Canon(heap, a) EXCEPT !.kids = <<@[2], @[1]>>] = Canon(heap, b))
       => ~elements_equal(heap, a, b)

\* The merge has compared the content of an unlabelled port with
\* index["NA"], and the heap holds two distinct elements that are equal and
\* two that differ only in the order of their two children.
C9_Witness ==
  /\ \E k \in Merged : ~HasLabel(ports[k]) /\ Existing(ports[k]) # Null
  /\ \E a \in DOMAIN heap, b \in DOMAIN heap :
       /\ a # b /\ Len(heap[a].kids) > 0 /\ elements_equal(heap, a, b)
  /\ \E a \in DOMAIN heap, b \in DOMAIN heap :
       /\ Len(heap[a].kids) = 2
       /\ ~StructurallyEqual(heap, heap[a].kids[1], heap[a].kids[2])
       /\ [Canon(heap, a) EXCEPT !.kids = <<@[2], @[1]>>] = Canon(heap, b)
       /\ ~elements_equal(heap, a, b)

(* C10: contains_contents(container, target) holds exactly when the tags   *)
(* are equal and the target is a child of the container or some            *)
(* OptionalContent child of the container, at any position, contains the   *)
(* target or has the same stripped lines of serialized text.               *)
C10_AnyOptionalContentChild ==
  \A c \in DOMAIN heap, t \in DOMAIN heap :
    contains_contents(heap, c, t)
    <=> /\ heap[c].tag = heap[t].tag
        /\ \/ t \in Range(heap[c].kids)
           \/ \E child \in Range(heap[c].kids) :
                /\ heap[child].tag = OptionalContentTag
                /\ \/ contains_contents(heap, child, t)
                   \/ StrippedLines(heap, child) = StrippedLines(heap, t)

====
